---- MODULE Spec2Model ----
(***************************************************************************)
(* Model of the chat route handler (POST) that wraps a streamed model      *)
(* call in Galileo logger calls.  Each request owns one GalileoLogger;     *)
(* the calls made on it are recorded, in order, in logger[r].  The only    *)
(* state shared between requests is chatSessionMap.  The logging backend   *)
(* and the streaming provider are external: a logger call may throw, the   *)
(* provider runs the tools while it streams and ends the stream by         *)
(* onFinish, by onError, or by an interruption that calls neither.         *)
(*                                                                         *)
(* Text is modelled as a sequence of tokens; a template literal or a       *)
(* string concatenation is the concatenation of the sequences, '' is <<>>. *)
(***************************************************************************)
EXTENDS Integers, Sequences, FiniteSets, TLC

\* ------------------------------------------------------------- bounds
\* Tool invocations the provider makes, and logger calls that throw, over
\* all requests of a run.
MaxTools == 1
MaxFaults == 1

\* Messages of a conversation drawn for the checks of the serializations.
MaxMsgs == 2

\* Two requests, numbered in the order they reach POST: the properties
\* checked relate one request or a pair of requests.
Reqs == {1, 2}

\* ------------------------------------------------------------- inputs
\* `id` of the request body: absent (undefined), the empty string, or a name.
NoId == "<undefined>"
ChatIds == {NoId, "", "chat-a"}

TextPart(t) == [type |-> "text", text |-> t]
OtherPart(ty) == [type |-> ty, text |-> <<>>]
Msg(role, parts) == [role |-> role, hasParts |-> TRUE, parts |-> parts]

Conversations ==
    { <<Msg("user", <<OtherPart("file"), TextPart(<<"What's the weather in Boston?">>)>>)>> }

\* Conversations of up to MaxMsgs messages, over both roles and over part
\* lists with none, one and two text parts, an empty text, a text with a
\* double quote and a space, non-text parts, and `parts` undefined.
Roles == {"user", "assistant"}

PartLists ==
    { <<>>,
      <<TextPart(<<"hi">>)>>,
      <<OtherPart("file"), TextPart(<<"hi">>)>>,
      <<TextPart(<<"hi">>), TextPart(<<"say", " ", "\"", "hi", "\"">>)>>,
      <<TextPart(<<>>)>>,
      <<OtherPart("tool-weather")>> }

AnyMessages ==
    { Msg(role, parts) : role \in Roles, parts \in PartLists }
    \cup { [role |-> role, hasParts |-> FALSE, parts |-> <<>>] : role \in Roles }

AnyConversations == UNION { [1..n -> AnyMessages] : n \in 0..MaxMsgs }

\* Values the provider hands to onError: an Error with a message, or any
\* other thrown value (which has no message the handler reads).
ErrorValues ==
    { [isError |-> TRUE, message |-> <<"rate limited">>],
      [isError |-> FALSE, message |-> <<>>] }

\* Final assistant texts the provider hands to onFinish.
FinalTexts == { <<"It is 21C in Boston">> }

Locations == { <<"Boston">> }
Temperatures == { 70 }

\* Arguments and draws of weatherTool for the checks of its span.
AnyLocations == { <<"Boston">>, <<"St.", " ", "\"", "John's", "\"">> }
AnyTemperatures == 32..90
ConvertInputs == { 70 }

\* ------------------------------------------------------------- constants
MODEL_NAME == <<"gpt-4o">>

\* ------------------------------------------------------------- state
VARIABLES
    pc,              \* per request: position in POST / the stream
    chatId,          \* per request: `id` of the body
    messages,        \* per request: `messages` of the body
    sessionId,       \* per request: the local sessionId (0: unassigned)
    logger,          \* per request: the calls made on its GalileoLogger
    toolRuns,        \* per request: the tool invocations the provider made
    chatSessionMap,  \* the module-level Map
    nextSession,     \* sessions the backend has created so far
    faults,          \* logger calls that have thrown so far
    overlap,         \* history: pairs of requests that were inside POST together
    streamError      \* per request: the error handed to onError (<<>>: none)

vars == <<pc, chatId, messages, sessionId, logger, toolRuns, chatSessionMap,
          nextSession, faults, overlap, streamError>>

\* ------------------------------------------------------------- helpers
\* Variant: only an absent id counts as falsy.
TruthyDefined(c) == c # NoId

\* JavaScript truthiness of the optional string chatId.
Truthy(c) == c # NoId /\ c # ""

MapHas(m, c) == c \in DOMAIN m
MapSet(m, c, s) == [x \in (DOMAIN m) \cup {c} |-> IF x = c THEN s ELSE m[x]]

\* One call on the logger.  sid: the session id passed or returned (0: none);
\* inv: the tool invocation the call belongs to (0: none); ok: it returned.
Call(op, input, output, tags, sid, inv) ==
    [op |-> op, input |-> input, output |-> output, tags |-> tags,
     sid |-> sid, inv |-> inv, ok |-> TRUE]

\* The calls of `calls` that are made when the k-th one throws (k = 0: none
\* throws): the first k, the last of them marked as having thrown.
Performed(calls, k) ==
    IF k = 0 THEN calls
    ELSE [i \in 1..k |-> IF i = k THEN [calls[i] EXCEPT !.ok = FALSE] ELSE calls[i]]

\* Where a thrown logger call may be placed among n calls.
FaultAt(n) == IF faults < MaxFaults THEN 0..n ELSE {0}

Charge(k) == IF k = 0 THEN faults ELSE faults + 1

\* ------------------------------------------------------------- pure code
\* Array.prototype.join: the texts of `ts` with `sep` between neighbours.
RECURSIVE Join(_, _)
Join(ts, sep) ==
    IF Len(ts) = 0 THEN <<>>
    ELSE IF Len(ts) = 1 THEN ts[1]
    ELSE ts[1] \o sep \o Join(Tail(ts), sep)

\* parts.find(p => p.type === 'text'): index of the first text part, 0 if none.
FindText(parts) ==
    IF \E i \in 1..Len(parts) : parts[i].type = "text"
    THEN CHOOSE i \in 1..Len(parts) :
            /\ parts[i].type = "text"
            /\ \A j \in 1..(i - 1) : parts[j].type # "text"
    ELSE 0

\* messages[messages.length - 1]?.parts?.find(...)?.text || 'Chat request'
TraceInput(msgs) ==
    LET last == IF Len(msgs) = 0 THEN 0 ELSE Len(msgs)
        i == IF last = 0 \/ ~msgs[last].hasParts THEN 0 ELSE FindText(msgs[last].parts)
        t == IF i = 0 THEN <<>> ELSE msgs[last].parts[i].text
    IN IF t = <<>> THEN <<"Chat request">> ELSE t

\* Variant: every part is reduced to its placeholder.
PartTextPlaceholderOnly(p) == <<"[", p.type, "]">>

\* p.type === 'text' ? p.text : `[${p.type}]`
PartText(p) == IF p.type = "text" THEN p.text ELSE <<"[", p.type, "]">>

\* m.parts?.map(...).join(' ') || ''
Content(m) ==
    IF m.hasParts
    THEN Join([i \in 1..Len(m.parts) |-> PartText(m.parts[i])], <<" ">>)
    ELSE <<>>

\* messages.map(m => ({ role: m.role, content: ... }))
Transcript(msgs) ==
    [i \in 1..Len(msgs) |-> [role |-> msgs[i].role, content |-> Content(msgs[i])]]

\* JSON.stringify of a string (a double quote and a backslash are escaped),
\* of an object given as its "key":value texts, and of an array given as its
\* elements' texts.
EscapeToken(c) == IF c = "\"" THEN "\\\"" ELSE IF c = "\\" THEN "\\\\" ELSE c
JSONString(t) == <<"\"">> \o [i \in 1..Len(t) |-> EscapeToken(t[i])] \o <<"\"">>
JSONField(k, v) == <<"\"", k, "\":">> \o v
JSONObject(fields) == <<"{">> \o Join(fields, <<",">>) \o <<"}">>
JSONArray(elems) == <<"[">> \o Join(elems, <<",">>) \o <<"]">>

\* JSON.stringify(messages.map(...)): the agent span's input.
AgentInput(msgs) ==
    LET t == Transcript(msgs)
    IN JSONArray([i \in 1..Len(t) |->
            JSONObject(<< JSONField("role", JSONString(<<t[i].role>>)),
                          JSONField("content", JSONString(t[i].content)) >>)])

\* Math.round(x) for x = n / d with d > 0: floor(x + 1/2).
RoundDiv(n, d) == (2 * n + d) \div (2 * d)

\* Math.round((temperature - 32) * (5 / 9))
Celsius(temperature) == RoundDiv((temperature - 32) * 5, 9)

\* Variant: the message of the error is never read.
ErrorMessageUnknown(error) == <<"Unknown error">>

\* error instanceof Error ? error.message : 'Unknown error'
ErrorMessage(error) == IF error.isError THEN error.message ELSE <<"Unknown error">>

\* ------------------------------------------------------------- logger calls
\* `Chat Session${chatId ? ` - ${chatId}` : ''}`
SessionName(c) == <<"Chat Session">> \o (IF Truthy(c) THEN <<" - ", c>> ELSE <<>>)

StartSessionCall(c) == Call("startSession", SessionName(c), <<>>, <<>>, 0, 0)

SetSessionIdCall(s) == Call("setSessionId", <<>>, <<>>, <<>>, s, 0)

\* Variant: the agent span is added before the workflow span.
SetupCallsAgentFirst(msgs) ==
    << Call("startTrace", TraceInput(msgs), <<>>, <<>>, 0, 0),
       Call("addAgentSpan", AgentInput(msgs), <<>>, <<"agent", "tool-selection">>, 0, 0),
       Call("addWorkflowSpan",
            <<"Processing chat request with agent decision-making">>, <<>>, <<>>, 0, 0) >>

\* Steps 3 to 5 of POST, in program order.
SetupCalls(msgs) ==
    << Call("startTrace", TraceInput(msgs), <<>>, <<>>, 0, 0),
       Call("addWorkflowSpan",
            <<"Processing chat request with agent decision-making">>, <<>>, <<>>, 0, 0),
       Call("addAgentSpan", AgentInput(msgs), <<>>, <<"agent", "tool-selection">>, 0, 0) >>

\* The error a throwing logger call raises.
LoggerError == [isError |-> TRUE, message |-> <<"logger unavailable">>]

\* The errors a second throwing call of a handler run may raise: the same
\* error again or one of its own.
LoggerErrors == {LoggerError, [isError |-> TRUE, message |-> <<"span rejected">>]}

\* JSON.stringify({ error: error instanceof Error ? error.message : 'Unknown error' })
ErrorOutput(error) ==
    JSONObject(<<JSONField("error", JSONString(ErrorMessage(error)))>>)

WeatherInput(location) == JSONObject(<<JSONField("location", JSONString(location))>>)

WeatherResult(location, temperature) == [location |-> location, temperature |-> temperature]

WeatherOutput(result) ==
    JSONObject(<< JSONField("location", JSONString(result.location)),
                  JSONField("temperature", <<ToString(result.temperature)>>) >>)

\* Variant: the span's output serializes the arguments instead of the result.
WeatherSpanInputAsOutput(location, result, inv) ==
    Call("addToolSpan", WeatherInput(location), WeatherInput(location),
         <<"tool", "weather">>, 0, inv)

WeatherSpan(location, result, inv) ==
    Call("addToolSpan", WeatherInput(location), WeatherOutput(result),
         <<"tool", "weather">>, 0, inv)

WeatherErrorSpan(location, error, inv) ==
    Call("addToolSpan", WeatherInput(location), ErrorOutput(error),
         <<"tool", "weather", "error">>, 0, inv)

ConvertInput(temperature) ==
    JSONObject(<<JSONField("temperature", <<ToString(temperature)>>)>>)

ConvertOutput(celsius) == JSONObject(<<JSONField("celsius", <<ToString(celsius)>>)>>)

ConvertSpan(temperature, celsius, inv) ==
    Call("addToolSpan", ConvertInput(temperature), ConvertOutput(celsius),
         <<"tool", "conversion">>, 0, inv)

ConvertErrorSpan(temperature, error, inv) ==
    Call("addToolSpan", ConvertInput(temperature), ErrorOutput(error),
         <<"tool", "conversion", "error">>, 0, inv)

\* The try / catch of a tool function: the success span, and when that call
\* throws (k = 1) the span of the catch block, which may throw too (k2 = 1).
TryCatchSpans(okSpan, errSpan, k, k2) ==
    IF k = 0 THEN <<okSpan>>
    ELSE << [okSpan EXCEPT !.ok = FALSE],
            IF k2 = 0 THEN errSpan ELSE [errSpan EXCEPT !.ok = FALSE] >>

\* text || 'Chat completed successfully'
ConcludeOutput(text) == IF text = <<>> THEN <<"Chat completed successfully">> ELSE text

\* Variant: the hierarchy is concluded before the LLM span is added.
OnFinishCallsConcludeFirst(msgs, text) ==
    << Call("conclude", <<>>, IF text = <<>> THEN <<"Chat completed successfully">> ELSE text,
            <<>>, 0, 0),
       Call("addLlmSpan", AgentInput(msgs), text, <<"llm">> \o MODEL_NAME, 0, 0),
       Call("flush", <<>>, <<>>, <<>>, 0, 0) >>

\* The body of onFinish, in program order.  The LLM span's input is the
\* transcript (carried serialized), its output the assistant text.
OnFinishCalls(msgs, text) ==
    << Call("addLlmSpan", AgentInput(msgs), text, <<"llm">> \o MODEL_NAME, 0, 0),
       Call("conclude", <<>>, ConcludeOutput(text), <<>>, 0, 0),
       Call("flush", <<>>, <<>>, <<>>, 0, 0) >>

\* Variant: the error path records an LLM span before concluding.
OnErrorCallsWithLlmSpan(error) ==
    << Call("addLlmSpan", <<>>, <<"Error: ">> \o ErrorMessage(error), <<"llm">> \o MODEL_NAME, 0, 0),
       Call("conclude", <<>>, <<"Error: ">> \o ErrorMessage(error), <<>>, 0, 0),
       Call("flush", <<>>, <<>>, <<>>, 0, 0) >>

\* The body of onError, in program order.
OnErrorCalls(error) ==
    << Call("conclude", <<>>, <<"Error: ">> \o ErrorMessage(error), <<>>, 0, 0),
       Call("flush", <<>>, <<>>, <<>>, 0, 0) >>

\* Variant: the mapping is never stored.
StoreMappingSkipped(m, c, s) == m

\* Variant: the mapping is stored only when the id has none yet.
StoreMappingIfAbsent(m, c, s) == IF Truthy(c) /\ ~MapHas(m, c) THEN MapSet(m, c, s) ELSE m

\* Variant: the mapping is stored whatever the id.
StoreMappingAlways(m, c, s) == MapSet(m, c, s)

\* if (chatId) { chatSessionMap.set(chatId, sessionId); }
StoreMapping(m, c, s) == IF Truthy(c) THEN MapSet(m, c, s) ELSE m

\* chatId && chatSessionMap.has(chatId)
HasSession(m, c) == Truthy(c) /\ MapHas(m, c)

\* Variant: one logger at module level, used by every request.
LoggerOfShared(r) == 1

\* const logger = new GalileoLogger(...) inside POST: each call of POST has
\* its own logger, which its tool functions and callbacks close over.
LoggerOf(r) == r

\* ------------------------------------------------------------- initial state
Init ==
    /\ pc = [r \in Reqs |-> "idle"]
    /\ chatId = [r \in Reqs |-> NoId]
    /\ messages = [r \in Reqs |-> <<>>]
    /\ sessionId = [r \in Reqs |-> 0]
    /\ logger = [r \in Reqs |-> <<>>]
    /\ toolRuns = [r \in Reqs |-> <<>>]
    /\ chatSessionMap = <<>>
    /\ nextSession = 0
    /\ faults = 0
    /\ overlap = {}
    /\ streamError = [r \in Reqs |-> <<>>]

\* A request is inside POST from its call until POST returns or throws.
InPOST(q) == pc[q] \in {"parsing", "awaitSession"}

\* ------------------------------------------------------------- POST
\* POST is called with a body; it suspends at `await req.json()`.
POSTEnterOn(r, ids, conversations) ==
    /\ pc[r] = "idle"
    /\ \A q \in 1..(r - 1) : pc[q] # "idle"
    /\ \E c \in ids, msgs \in conversations :
          /\ chatId' = [chatId EXCEPT ![r] = c]
          /\ messages' = [messages EXCEPT ![r] = msgs]
    /\ pc' = [pc EXCEPT ![r] = "parsing"]
    /\ overlap' = overlap \cup UNION { {<<r, q>>, <<q, r>>} : q \in {x \in Reqs : InPOST(x)} }
    /\ UNCHANGED <<sessionId, logger, toolRuns, chatSessionMap, nextSession, faults,
                   streamError>>

POSTEnter(r) == POSTEnterOn(r, ChatIds, Conversations)

\* req.json() rejects: the catch block logs and rethrows.
JsonRejected(r) ==
    /\ pc[r] = "parsing"
    /\ pc' = [pc EXCEPT ![r] = "rejected"]
    /\ UNCHANGED <<chatId, messages, sessionId, logger, toolRuns, chatSessionMap,
                   nextSession, faults, overlap, streamError>>

\* The body parsed and the id is mapped: setSessionId, then steps 3 to 7 and
\* the return, without suspension.  A throwing call ends POST in the catch.
ContinueSession(r) ==
    /\ pc[r] = "parsing"
    /\ HasSession(chatSessionMap, chatId[r])
    /\ LET s == chatSessionMap[chatId[r]]
           calls == <<SetSessionIdCall(s)>> \o SetupCalls(messages[r])
       IN /\ sessionId' = [sessionId EXCEPT ![r] = s]
          /\ \E k \in FaultAt(Len(calls)) :
                /\ logger' = [logger EXCEPT ![LoggerOf(r)] = @ \o Performed(calls, k)]
                /\ faults' = Charge(k)
                /\ pc' = [pc EXCEPT ![r] = IF k = 0 THEN "streaming" ELSE "rejected"]
    /\ UNCHANGED <<chatId, messages, toolRuns, chatSessionMap, nextSession, overlap, streamError>>

\* The body parsed and the id is falsy or unmapped: startSession is called and
\* POST suspends at its await.
StartSession(r) ==
    /\ pc[r] = "parsing"
    /\ ~HasSession(chatSessionMap, chatId[r])
    /\ logger' = [logger EXCEPT ![LoggerOf(r)] = Append(@, StartSessionCall(chatId[r]))]
    /\ pc' = [pc EXCEPT ![r] = "awaitSession"]
    /\ UNCHANGED <<chatId, messages, sessionId, toolRuns, chatSessionMap, nextSession,
                   faults, overlap, streamError>>

\* startSession returns a new session id: the mapping is stored, then steps 3
\* to 7 and the return, without suspension.
SessionResolved(r) ==
    /\ pc[r] = "awaitSession"
    /\ LET s == nextSession + 1
           n == Len(logger[LoggerOf(r)])
           calls == SetupCalls(messages[r])
       IN /\ nextSession' = s
          /\ sessionId' = [sessionId EXCEPT ![r] = s]
          /\ chatSessionMap' = StoreMapping(chatSessionMap, chatId[r], s)
          /\ \E k \in FaultAt(Len(calls)) :
                /\ logger' = [logger EXCEPT ![LoggerOf(r)] =
                                 [@ EXCEPT ![n].sid = s] \o Performed(calls, k)]
                /\ faults' = Charge(k)
                /\ pc' = [pc EXCEPT ![r] = IF k = 0 THEN "streaming" ELSE "rejected"]
    /\ UNCHANGED <<chatId, messages, toolRuns, overlap, streamError>>

\* startSession rejects: the catch block logs and rethrows.
SessionRejected(r) ==
    /\ pc[r] = "awaitSession"
    /\ faults < MaxFaults
    /\ logger' = [logger EXCEPT ![LoggerOf(r)] = [@ EXCEPT ![Len(@)].ok = FALSE]]
    /\ faults' = faults + 1
    /\ pc' = [pc EXCEPT ![r] = "rejected"]
    /\ UNCHANGED <<chatId, messages, sessionId, toolRuns, chatSessionMap, nextSession,
                   overlap, streamError>>

\* ------------------------------------------------------------- tools
\* Whether the catch block's own span may throw as well.  The two throws
\* belong to one handler run and count as one fault.
SecondFault(k) == IF k = 1 THEN {0, 1} ELSE {0}

\* Tool invocations the provider has made so far, over all requests.
RECURSIVE SumLen(_, _)
SumLen(f, S) ==
    IF S = {} THEN 0
    ELSE LET x == CHOOSE y \in S : TRUE IN Len(f[x]) + SumLen(f, S \ {x})

ToolsRun == SumLen(toolRuns, Reqs)

\* What the provider gets back from a tool function: `result` when the try
\* block ran through, else the error the catch block ends with, which is
\* the caught error e1 (`throw error`) unless the catch block's own
\* addToolSpan threw e2 first.
Outcome(result, e1, e2, k, k2) ==
    [raised |-> k # 0,
     value  |-> IF k = 0 THEN <<result>> ELSE <<>>,
     caught |-> IF k = 0 THEN <<>> ELSE <<e1>>,
     error  |-> IF k = 0 THEN <<>> ELSE IF k2 = 0 THEN <<e1>> ELSE <<e2>>]

\* One tool invocation: the calls it made and what the provider got back.
RunTool(r, name, arg, spans, k, outcome) ==
    /\ logger' = [logger EXCEPT ![LoggerOf(r)] = @ \o spans]
    /\ toolRuns' = [toolRuns EXCEPT ![r] =
                       Append(@, [tool |-> name, arg |-> arg, raised |-> outcome.raised,
                                  value |-> outcome.value, caught |-> outcome.caught,
                                  error |-> outcome.error])]
    /\ faults' = Charge(k)

\* weatherTool({ location }) with the given arguments and random draw.
weatherToolOn(r, locations, temperatures) ==
    /\ pc[r] = "streaming"
    /\ ToolsRun < MaxTools
    /\ \E location \in locations, temperature \in temperatures, k \in FaultAt(1) :
          \E k2 \in SecondFault(k), e2 \in LoggerErrors :
             LET inv == Len(toolRuns[r]) + 1
                 e1 == LoggerError
                 result == WeatherResult(location, temperature)
                 spans == TryCatchSpans(WeatherSpan(location, result, inv),
                                        WeatherErrorSpan(location, e1, inv), k, k2)
             IN /\ k2 = 0 => e2 = LoggerError
                /\ RunTool(r, "weather", location, spans, k,
                           Outcome(result, e1, e2, k, k2))
    /\ UNCHANGED <<pc, chatId, messages, sessionId, chatSessionMap, nextSession, overlap,
                   streamError>>

\* The provider executes weatherTool({ location }).
weatherTool(r) == weatherToolOn(r, Locations, Temperatures)

\* The provider executes convertTool({ temperature }).
convertTool(r) ==
    /\ pc[r] = "streaming"
    /\ ToolsRun < MaxTools
    /\ \E temperature \in ConvertInputs, k \in FaultAt(1) :
          \E k2 \in SecondFault(k), e2 \in LoggerErrors :
             LET inv == Len(toolRuns[r]) + 1
                 e1 == LoggerError
                 celsius == Celsius(temperature)
                 spans == TryCatchSpans(ConvertSpan(temperature, celsius, inv),
                                        ConvertErrorSpan(temperature, e1, inv), k, k2)
             IN /\ k2 = 0 => e2 = LoggerError
                /\ RunTool(r, "convertFahrenheitToCelsius", <<ToString(temperature)>>,
                           spans, k, Outcome([celsius |-> celsius], e1, e2, k, k2))
    /\ UNCHANGED <<pc, chatId, messages, sessionId, chatSessionMap, nextSession, overlap,
                   streamError>>

\* ------------------------------------------------------------- stream end
\* The stream completes: onFinish runs up to `await logger.flush()`, or up to
\* the first call that throws.
onFinish(r) ==
    /\ pc[r] = "streaming"
    /\ \E text \in FinalTexts :
          LET calls == OnFinishCalls(messages[r], text)
          IN \E k \in FaultAt(Len(calls)) :
                /\ logger' = [logger EXCEPT ![LoggerOf(r)] = @ \o Performed(calls, k)]
                /\ faults' = Charge(k)
                /\ pc' = [pc EXCEPT ![r] =
                             IF k \in {0, Len(calls)} THEN "flushing" ELSE "completed"]
    /\ UNCHANGED <<chatId, messages, sessionId, toolRuns, chatSessionMap, nextSession,
                   overlap, streamError>>

\* The awaited flush settles and onFinish ends.
FlushSettled(r) ==
    /\ pc[r] = "flushing"
    /\ pc' = [pc EXCEPT ![r] = "completed"]
    /\ UNCHANGED <<chatId, messages, sessionId, logger, toolRuns, chatSessionMap,
                   nextSession, faults, overlap, streamError>>

\* The stream fails: onError runs (flush is not awaited).
onError(r) ==
    /\ pc[r] = "streaming"
    /\ \E error \in ErrorValues :
          LET calls == OnErrorCalls(error)
          IN \E k \in FaultAt(Len(calls)) :
                /\ logger' = [logger EXCEPT ![LoggerOf(r)] = @ \o Performed(calls, k)]
                /\ faults' = Charge(k)
                /\ streamError' = [streamError EXCEPT ![r] = <<error>>]
    /\ pc' = [pc EXCEPT ![r] = "failed"]
    /\ UNCHANGED <<chatId, messages, sessionId, toolRuns, chatSessionMap, nextSession,
                   overlap>>

\* The caller disconnects mid-stream: the provider calls neither callback.
Interrupted(r) ==
    /\ pc[r] = "streaming"
    /\ pc' = [pc EXCEPT ![r] = "aborted"]
    /\ UNCHANGED <<chatId, messages, sessionId, logger, toolRuns, chatSessionMap,
                   nextSession, faults, overlap, streamError>>

\* ------------------------------------------------------------- specification
Next ==
    \E r \in Reqs :
        \/ POSTEnter(r)
        \/ JsonRejected(r)
        \/ ContinueSession(r)
        \/ StartSession(r)
        \/ SessionResolved(r)
        \/ SessionRejected(r)
        \/ weatherTool(r)
        \/ convertTool(r)
        \/ onFinish(r)
        \/ FlushSettled(r)
        \/ onError(r)
        \/ Interrupted(r)

Spec == Init /\ [][Next]_vars

\* One request, from its body to the spans of its setup, over the wide set
\* of conversations.
NextConv ==
    \/ POSTEnterOn(1, {NoId, "chat-a"}, AnyConversations)
    \/ StartSession(1)
    \/ SessionResolved(1)

SpecConv == Init /\ [][NextConv]_vars

\* One request, from its body to the spans of weatherTool, over the wide
\* sets of locations and temperatures.
NextWeather ==
    \/ POSTEnterOn(1, {NoId, "chat-a"}, Conversations)
    \/ StartSession(1)
    \/ SessionResolved(1)
    \/ weatherToolOn(1, AnyLocations, AnyTemperatures)

SpecWeather == Init /\ [][NextWeather]_vars

\* ------------------------------------------------------------- properties
\* The request carries a conversation id: present and not the empty string.
NonEmptyId(c) == c \notin {NoId, ""}

\* Indices of the calls of `op` made on request r's logger.
CallsOf(r, op) == {i \in 1..Len(logger[r]) : logger[r][i].op = op}

\* The stream of r ended through onFinish / through onError.
Finished(r) == pc[r] \in {"flushing", "completed"}
Failed(r) == pc[r] = "failed"

\* Some logger call of r threw.
SomeCallThrew(r) == \E i \in 1..Len(logger[r]) : ~logger[r][i].ok

\* m occurs in t as a contiguous run of tokens.
Contains(t, m) == \E i \in 0..(Len(t) - Len(m)) : SubSeq(t, i + 1, i + Len(m)) = m

\* C1 (as claimed): once the stream of a request has ended through onFinish
\* or onError, flush has been invoked exactly once on its logger, after a
\* conclude call of the same request; it is never invoked more than once.
C1_FlushOnceAfterConclude ==
    \A r \in Reqs :
        /\ Cardinality(CallsOf(r, "flush")) <= 1
        /\ (Finished(r) \/ Failed(r)) =>
              \E f \in CallsOf(r, "flush") : \E c \in CallsOf(r, "conclude") : c < f

\* C2 (as claimed): among requests with the same non-empty id that never
\* were inside POST together, startSession is called by one request only.
C2_StartSessionByFirstOnly ==
    \A q, r \in Reqs :
        (q < r /\ chatId[q] = chatId[r] /\ NonEmptyId(chatId[r]) /\ <<q, r>> \notin overlap)
        => ~(CallsOf(q, "startSession") # {} /\ CallsOf(r, "startSession") # {})

\* C2 (amended): among requests with the same non-empty id that never were
\* inside POST together, a request that follows one that holds a session id
\* (obtained from startSession or continued) makes no startSession call and
\* its first call is setSessionId with exactly that id; a request that
\* follows one left without a session id calls startSession itself.
C2_SessionReusedOnceObtained ==
    \A q, r \in Reqs :
        (q < r /\ chatId[q] = chatId[r] /\ NonEmptyId(chatId[r]) /\ <<q, r>> \notin overlap
           /\ Len(logger[r]) > 0)
        => IF sessionId[q] # 0
           THEN /\ CallsOf(r, "startSession") = {}
                /\ logger[r][1].op = "setSessionId"
                /\ logger[r][1].sid = sessionId[q]
                /\ sessionId[r] = sessionId[q]
           ELSE logger[r][1].op = "startSession"

\* C2 witness: the second of two non-overlapping requests with one id
\* continued the session the first one created, and streams under it.
C2_Witness ==
    /\ chatId[1] = chatId[2] /\ NonEmptyId(chatId[1]) /\ <<1, 2>> \notin overlap
    /\ CallsOf(1, "startSession") # {} /\ sessionId[1] # 0
    /\ pc[2] = "streaming" /\ logger[2][1].op = "setSessionId"
    /\ logger[2][1].sid = sessionId[1]

\* A request obtained its session id from a startSession call of its own.
Created(r) ==
    /\ sessionId[r] # 0
    /\ \E i \in CallsOf(r, "startSession") : logger[r][i].ok /\ logger[r][i].sid = sessionId[r]

\* C3: two requests with the same non-empty id that each created a session
\* (both passed the has-check before either stored the mapping) hold distinct
\* session ids, and the mapping holds the one stored last, the later-created.
C3_RaceCreatesTwoSessions ==
    \A q, r \in Reqs :
        (q # r /\ chatId[q] = chatId[r] /\ NonEmptyId(chatId[r]) /\ Created(q) /\ Created(r))
        => /\ <<q, r>> \in overlap
           /\ sessionId[q] # sessionId[r]
           /\ MapHas(chatSessionMap, chatId[r])
           /\ chatSessionMap[chatId[r]] =
                 (IF sessionId[q] > sessionId[r] THEN sessionId[q] ELSE sessionId[r])

\* C3 witness: both requests stream, each under a session of its own, and
\* the mapping no longer holds the session that was stored first.
C3_Witness ==
    /\ chatId[1] = chatId[2] /\ NonEmptyId(chatId[1])
    /\ Created(1) /\ Created(2)
    /\ pc[1] = "streaming" /\ pc[2] = "streaming"
    /\ sessionId[1] # sessionId[2]
    /\ chatSessionMap[chatId[1]] # (IF sessionId[1] < sessionId[2] THEN sessionId[1] ELSE sessionId[2])

\* C4 (as claimed): a logger call that throws never keeps POST from returning
\* the response stream: no request with a thrown logger call ends rejected.
C4_LoggerFailureNeverRejects ==
    \A r \in Reqs : SomeCallThrew(r) => pc[r] # "rejected"

\* C5: a request makes at most one addLlmSpan call; none when its stream
\* failed (onError), exactly one once its stream has completed (onFinish).
C5_AtMostOneLlmSpan ==
    \A r \in Reqs :
        /\ Cardinality(CallsOf(r, "addLlmSpan")) <= 1
        /\ Failed(r) => CallsOf(r, "addLlmSpan") = {}
        /\ Finished(r) => Cardinality(CallsOf(r, "addLlmSpan")) = 1

\* C5 witness: one request completed with its single LLM span while the
\* other failed with none.
C5_Witness ==
    \E q, r \in Reqs :
        /\ pc[q] = "completed" /\ Cardinality(CallsOf(q, "addLlmSpan")) = 1
        /\ Failed(r) /\ CallsOf(r, "addLlmSpan") = {} /\ CallsOf(r, "conclude") # {}

HasTag(call, t) == \E i \in 1..Len(call.tags) : call.tags[i] = t

\* The addToolSpan calls of the n-th tool invocation of request r.
SpansOf(r, n) == {i \in CallsOf(r, "addToolSpan") : logger[r][i].inv = n}

\* C6 (as claimed): every tool invocation makes exactly one addToolSpan call,
\* tagged 'error' if and only if the invocation raised.
C6_OneToolSpanPerInvocation ==
    \A r \in Reqs : \A n \in 1..Len(toolRuns[r]) :
        /\ Cardinality(SpansOf(r, n)) = 1
        /\ \A i \in SpansOf(r, n) : HasTag(logger[r][i], "error") <=> toolRuns[r][n].raised

ReturnedBefore(r, i, ops) ==
    \E j \in 1..(i - 1) : logger[r][j].op \in ops /\ logger[r][j].ok

\* C9: on one logger, startTrace follows the session's resolution,
\* addWorkflowSpan follows startTrace, addAgentSpan follows addWorkflowSpan,
\* and every addToolSpan and addLlmSpan follows addAgentSpan and precedes
\* every conclude.
C9_ParentBeforeChild ==
    \A r \in Reqs : \A i \in 1..Len(logger[r]) :
        LET op == logger[r][i].op
        IN /\ op = "startTrace" => ReturnedBefore(r, i, {"startSession", "setSessionId"})
           /\ op = "addWorkflowSpan" => ReturnedBefore(r, i, {"startTrace"})
           /\ op = "addAgentSpan" => ReturnedBefore(r, i, {"addWorkflowSpan"})
           /\ op \in {"addToolSpan", "addLlmSpan"} =>
                 /\ ReturnedBefore(r, i, {"addAgentSpan"})
                 /\ \A j \in 1..(i - 1) : logger[r][j].op # "conclude"

\* C9 witness: a request that continued a session, whose logger holds the
\* seven calls from setSessionId to addLlmSpan in hierarchy order.
C9_Witness ==
    \E r \in Reqs :
        /\ Len(logger[r]) >= 6
        /\ [i \in 1..6 |-> logger[r][i].op] =
              <<"setSessionId", "startTrace", "addWorkflowSpan", "addAgentSpan",
                "addToolSpan", "addLlmSpan">>

\* What holds of a request with a falsy id once it has made a call.
FalsyIdState(r) ==
    /\ logger[r][1].op = "startSession"
    /\ CallsOf(r, "setSessionId") = {}
    /\ sessionId[r] # 0 => \A q \in Reqs \ {r} : sessionId[q] # sessionId[r]

StreamOver(r) == pc[r] \in {"completed", "failed", "aborted"}

\* C11 (as claimed): a request whose agent span was opened and whose stream
\* is over, however it ended, has been concluded and flushed.  Stated for
\* requests none of whose logger calls threw, so that a violation rests on
\* the way the stream ended alone.
C11_ConcludedHoweverStreamEnds ==
    \A r \in Reqs :
        (StreamOver(r) /\ ~SomeCallThrew(r))
        => (CallsOf(r, "conclude") # {} /\ CallsOf(r, "flush") # {})

\* C12 (as claimed): a tool invocation that raised made an error-tagged
\* addToolSpan call and handed the provider the very error its execution
\* raised, never a result; one that did not raise handed the provider its
\* result, the one its span records.
C12_ToolErrorReraised ==
    \A r \in Reqs : \A n \in 1..Len(toolRuns[r]) :
        LET run == toolRuns[r][n]
        IN IF run.raised
           THEN /\ \E i \in SpansOf(r, n) : HasTag(logger[r][i], "error")
                /\ run.value = <<>>
                /\ run.error = run.caught
           ELSE /\ run.error = <<>>
                /\ Len(run.value) = 1

\* ---- serializations (checked under SpecConv)
\* Indices of the text parts of a message.
TextParts(m) ==
    IF m.hasParts THEN {i \in 1..Len(m.parts) : m.parts[i].type = "text"} ELSE {}

Max(S) == CHOOSE x \in S : \A y \in S : y <= x

\* The last user-authored text of a conversation: the text of the last text
\* part of the latest user message that has one; 'Chat request' if none.
LastUserText(msgs) ==
    LET U == {i \in 1..Len(msgs) : msgs[i].role = "user" /\ TextParts(msgs[i]) # {}}
    IN IF U = {} THEN <<"Chat request">>
       ELSE msgs[Max(U)].parts[Max(TextParts(msgs[Max(U)]))].text

\* C13 (as claimed): the input of every startTrace call is the last
\* user-authored text of the request's conversation, and 'Chat request'
\* when the conversation has none.
C13_TraceInputIsLastUserText ==
    \A r \in Reqs : \A i \in CallsOf(r, "startTrace") :
        logger[r][i].input = LastUserText(messages[r])

\* Reading a serialized transcript back (JSON.parse of the agent span's
\* input): the content of a string runs to the next unescaped double quote.
UnescapeToken(c) == IF c = "\\\"" THEN "\"" ELSE IF c = "\\\\" THEN "\\" ELSE c

NextQuote(ts, i) ==
    IF \E j \in i..Len(ts) : ts[j] = "\""
    THEN CHOOSE j \in i..Len(ts) : ts[j] = "\"" /\ \A k \in i..(j - 1) : ts[k] # "\""
    ELSE 0

\* The objects of the array from the "{" at position i on; <<>> on text that
\* is not of the form [{"role":"..","content":".."},..].
RECURSIVE ParseMessages(_, _)
ParseMessages(ts, i) ==
    IF i + 12 > Len(ts) THEN <<>>
    ELSE LET j == NextQuote(ts, i + 12)
         IN IF j = 0 \/ j + 2 > Len(ts) \/ ts[i] # "{" \/ ts[j + 1] # "}" THEN <<>>
            ELSE << [role |-> UnescapeToken(ts[i + 5]),
                     content |-> [k \in 1..(j - i - 12) |-> UnescapeToken(ts[i + 11 + k])]] >>
                 \o (IF ts[j + 2] = "," THEN ParseMessages(ts, j + 3) ELSE <<>>)

ParseTranscript(ts) == IF Len(ts) < 3 THEN <<>> ELSE ParseMessages(ts, 2)

\* The texts of a message's text parts and a '[type]' marker for each other
\* part, in order, with one space between neighbours.
Flattened(m) ==
    IF m.hasParts
    THEN Join([i \in 1..Len(m.parts) |->
                  IF m.parts[i].type = "text" THEN m.parts[i].text
                  ELSE <<"[", m.parts[i].type, "]">>], <<" ">>)
    ELSE <<>>

C15_WeatherSpanMatchesResult ==
    \A r \in Reqs : \A n \in 1..Len(toolRuns[r]) :
        LET run == toolRuns[r][n]
        IN (run.tool = "weather" /\ ~run.raised) =>
              /\ Len(run.value) = 1 /\ run.value[1].location = run.arg
              /\ \A i \in SpansOf(r, n) :
                    /\ logger[r][i].input =
                          JSONObject(<<JSONField("location", JSONString(run.arg))>>)
                    /\ logger[r][i].output =
                          JSONObject(<< JSONField("location", JSONString(run.value[1].location)),
                                        JSONField("temperature",
                                                  <<ToString(run.value[1].temperature)>>) >>)
                    /\ HasTag(logger[r][i], "tool") /\ HasTag(logger[r][i], "weather")
              /\ Cardinality(SpansOf(r, n)) = 1

\* C15 witness: a weather invocation for a location with a quote in its
\* name returned 90 degrees and its span was recorded.
C15_Witness ==
    /\ Len(toolRuns[1]) = 1 /\ ~toolRuns[1][1].raised
    /\ toolRuns[1][1].arg = <<"St.", " ", "\"", "John's", "\"">>
    /\ toolRuns[1][1].value[1].temperature = 90
    /\ \E i \in SpansOf(1, 1) : logger[1][i].ok

\* ---- ownership of the span hierarchy
\* The step is a step of request r.
StepOf(r) == pc'[r] # pc[r] \/ toolRuns'[r] # toolRuns[r]

\* C16: the calls recorded on a request's logger are that request's own: its
\* tool spans are those of its own invocations, its session calls carry its
\* own session id, and a logger receives calls only in a step of its own
\* request; a step of one request changes nothing kept per request for
\* another.
C16_OwnLoggerOnly ==
    /\ [](\A r \in Reqs :
            /\ \A i \in CallsOf(r, "addToolSpan") : logger[r][i].inv \in 1..Len(toolRuns[r])
            /\ \A n \in 1..Len(toolRuns[r]) : SpansOf(r, n) # {}
            /\ \A i \in CallsOf(r, "setSessionId") : logger[r][i].sid = sessionId[r]
            /\ CallsOf(r, "addLlmSpan") # {} => Finished(r)
            /\ pc[r] = "idle" => logger[r] = <<>>)
    /\ [][\A r \in Reqs :
            ~StepOf(r) => /\ logger'[r] = logger[r]
                          /\ sessionId'[r] = sessionId[r]
                          /\ messages'[r] = messages[r]
                          /\ chatId'[r] = chatId[r]
                          /\ streamError'[r] = streamError[r]]_vars

\* C16 witness: request 2 ran a tool and finished while request 1 was still
\* streaming; the tool and LLM spans are on request 2's logger only.
C16_Witness ==
    /\ pc[1] = "streaming" /\ Finished(2)
    /\ Len(toolRuns[2]) = 1 /\ SpansOf(2, 1) # {}
    /\ CallsOf(2, "addLlmSpan") # {}
    /\ CallsOf(1, "addToolSpan") = {} /\ CallsOf(1, "addLlmSpan") = {}
    /\ CallsOf(1, "addAgentSpan") # {}

\* ---- writes to chatSessionMap
\* The startSession call of r threw.
StartSessionThrew(r) == \E i \in CallsOf(r, "startSession") : ~logger[r][i].ok

====
